---- MODULE Spec2Model ----
(***************************************************************************)
(* wasm-hello (src/wasm-hello/src/lib.rs): a process-wide singleton        *)
(*   static HELLO_STATE: LazyLock<Mutex<HelloState>>                       *)
(* and the #[wasm_bindgen] accessors that lock it, read or write one field *)
(* and drop the guard.                                                     *)
(*                                                                         *)
(* f64 values are records [k, v]: k is "nan", "ninf", "fin" or "pinf" and, *)
(* for a finite value, v is the value in units of 0.0001 (10.0001 is       *)
(* 100001).  i32 values are TLA+ integers kept inside I32_MIN..I32_MAX.    *)
(***************************************************************************)
EXTENDS Integers, Sequences, FiniteSets, TLC

VARIABLES
    panic_hook,   \* has the start function installed the panic hook?
    hello_state,  \* the HelloState inside the Mutex (meaningful once created)
    created,      \* LazyLock: has the initialiser closure run?
    locked,       \* Mutex: is the raw lock held?
    poisoned,     \* Mutex: poison flag
    build,        \* how the crate was compiled: overflow checks, panic strategy
    last,         \* history (single-threaded host): the last call that ended, with its
                  \*   argument or return value
    wrote,        \* history (single-threaded host): the fields completed calls have written
    shadow,       \* history (single-threaded host): per field, the value last written to it
    base,         \* history: the argument of the last wasm_init that returned (0 when none)
    incs,         \* history: increment_counter calls that returned since then
    pc,           \* multi-threaded host: per thread, where it is in its call
    cur,          \* multi-threaded host: per thread, the call it is running
    serial        \* multi-threaded host: the calls applied one at a time, in lock order

vars == <<panic_hook, hello_state, created, locked, poisoned, build, last, wrote, shadow,
          base, incs, pc, cur, serial>>

----------------------------------------------------------------------------
(* Bounds of the model *)

\* increment_counter calls explored after a wasm_init
MaxIncs == 3
\* how many of TextSamples are passed to the text setters
MaxText == 1
\* threads of the multi-threaded host
NThreads == 2

----------------------------------------------------------------------------
(* i32 *)

I32_MAX == 2147483647
I32_MIN == -I32_MAX - 1

\* i32 addition of 1 without overflow checks: two's complement wrap-around
i32_wrapping_inc(c) == IF c = I32_MAX THEN I32_MIN ELSE c + 1

\* does c + 1 overflow i32?
i32_inc_overflows(c) == c = I32_MAX

\* arguments passed to wasm_init; I32_MAX itself is reached by incrementing
IntInputs == {I32_MIN, 5, I32_MAX - 1}

----------------------------------------------------------------------------
(* f64 *)

NEG_TEN == -100000
TEN == 100000

Fin(v) == [k |-> "fin", v |-> v]
NaN == [k |-> "nan", v |-> 0]
NegInf == [k |-> "ninf", v |-> 0]
PosInf == [k |-> "pinf", v |-> 0]

\* a < b for two f64 values neither of which is NaN
f64_lt(a, b) ==
    CASE a.k = "ninf" -> b.k # "ninf"
      [] a.k = "pinf" -> FALSE
      [] OTHER -> \/ b.k = "pinf"
                  \/ b.k = "fin" /\ a.v < b.v

\* f64::max: "if one of the arguments is NaN, then the other argument is returned"
f64_max(self, other) ==
    IF self.k = "nan" THEN other
    ELSE IF other.k = "nan" THEN self
    ELSE IF f64_lt(self, other) THEN other ELSE self

\* f64::min: "if one of the arguments is NaN, then the other argument is returned"
f64_min(self, other) ==
    IF self.k = "nan" THEN other
    ELSE IF other.k = "nan" THEN self
    ELSE IF f64_lt(other, self) THEN other ELSE self

\* arguments passed to set_decimal: NaN, the infinities, -10.0001, -10.0, -3.1416,
\* 10.0 and 10.0001
FloatInputs ==
    {NaN, NegInf, PosInf, Fin(NEG_TEN - 1), Fin(NEG_TEN), Fin(-31416), Fin(TEN), Fin(TEN + 1)}

----------------------------------------------------------------------------
(* String *)

TextSamples == <<" a\n", "", "Cube", "Hubba Bubba", "Rust WASM is so Sigma!">>

TextInputs ==
    {TextSamples[i] : i \in 1..(IF MaxText < Len(TextSamples) THEN MaxText ELSE Len(TextSamples))}

----------------------------------------------------------------------------
(* struct HelloState and impl HelloState *)

\* slip: the message default left empty (String::new())
HelloState_new_empty_message ==
    [counter |-> 0, message |-> "", gum |-> "Hubba Bubba", ice_shape |-> "Cube",
     decimal |-> Fin(0)]

HelloState_new ==
    [counter |-> 0,
     message |-> "Rust WASM is so Sigma!",
     gum |-> "Hubba Bubba",
     ice_shape |-> "Cube",
     decimal |-> Fin(0)]

HelloState_get_counter(self) == self.counter

\* slip: self.counter = self.counter.saturating_add(1)
HelloState_increment_counter_saturating(self) ==
    [self EXCEPT !.counter = IF self.counter = I32_MAX THEN I32_MAX ELSE self.counter + 1]

\* self.counter += 1, in a build without overflow checks
HelloState_increment_counter(self) ==
    [self EXCEPT !.counter = i32_wrapping_inc(self.counter)]

HelloState_get_message(self) == self.message

HelloState_set_message(self, message) == [self EXCEPT !.message = message]

HelloState_get_fave_gum(self) == self.gum

\* slip: the setter copied from set_message also keeps assigning message
HelloState_set_fave_gum_and_message(self, gum) ==
    [self EXCEPT !.gum = gum, !.message = gum]

HelloState_set_fave_gum(self, gum) == [self EXCEPT !.gum = gum]

HelloState_get_fave_ice_shape(self) == self.ice_shape

\* slip: the setter copied from set_fave_gum still assigns gum
HelloState_set_fave_ice_shape_into_gum(self, shape) == [self EXCEPT !.gum = shape]

HelloState_set_fave_ice_shape(self, shape) == [self EXCEPT !.ice_shape = shape]

HelloState_get_decimal(self) == self.decimal

\* slip: the clamp left out
HelloState_set_decimal_unclamped(self, value) == [self EXCEPT !.decimal = value]

\* slip: value.clamp(-10.0, 10.0), which returns NaN for NaN
HelloState_set_decimal_clamp(self, value) ==
    [self EXCEPT !.decimal =
        IF value.k = "nan" THEN value
        ELSE f64_min(f64_max(value, Fin(NEG_TEN)), Fin(TEN))]

HelloState_set_decimal(self, value) ==
    [self EXCEPT !.decimal = f64_min(f64_max(value, Fin(NEG_TEN)), Fin(TEN))]

----------------------------------------------------------------------------
(* static HELLO_STATE: LazyLock<Mutex<HelloState>> *)

\* contents of the static before the LazyLock initialiser has run: no HelloState yet
Unallocated ==
    [counter |-> 0, message |-> "", gum |-> "", ice_shape |-> "", decimal |-> Fin(0)]

\* slip: a fresh Mutex::new(HelloState::new()) on every access (no LazyLock)
Deref_fresh == HelloState_new

\* LazyLock::deref: the closure || Mutex::new(HelloState::new()) runs on first access only
Deref == IF created THEN hello_state ELSE HelloState_new

\* Mutex::lock().unwrap() panics: the lock was poisoned by a panic that unwound
\* through a guard, or (panic = abort, single-threaded std) is still held by a
\* guard that was never dropped
LockUnwrapPanics == poisoned \/ locked

\* The profile decides whether i32 overflow is checked, the target whether a panic
\* unwinds (dropping the guards on its way) or aborts. Without overflow checks
\* nothing in the crate panics first, so the panic strategy is left at abort, the
\* strategy of wasm32-unknown-unknown.
Builds ==
    {b \in [overflow_checks : BOOLEAN, panic_unwind : BOOLEAN] :
        b.overflow_checks \/ ~b.panic_unwind}

----------------------------------------------------------------------------
(* the #[wasm_bindgen] functions, as functions of the locked HelloState *)

Call(op, i, t, f) == [op |-> op, int |-> i, text |-> t, float |-> f]

NoCall == Call("none", 0, "", Fin(0))

Getters ==
    {"get_counter", "get_message", "get_fave_gum", "get_fave_ice_shape", "get_decimal"}

\* slip: wasm_init re-initialises the whole state
wasm_init_body_reset(state, initial_counter) ==
    [HelloState_new EXCEPT !.counter = initial_counter]

\* state.counter = initial_counter
wasm_init_body(state, initial_counter) == [state EXCEPT !.counter = initial_counter]

\* the HelloState a call leaves behind when it runs to its end
Run(c, state) ==
    CASE c.op = "wasm_init" -> wasm_init_body(state, c.int)
      [] c.op = "increment_counter" -> HelloState_increment_counter(state)
      [] c.op = "set_message" -> HelloState_set_message(state, c.text)
      [] c.op = "set_fave_gum" -> HelloState_set_fave_gum(state, c.text)
      [] c.op = "set_fave_ice_shape" -> HelloState_set_fave_ice_shape(state, c.text)
      [] c.op = "set_decimal" -> HelloState_set_decimal(state, c.float)
      [] OTHER -> state

\* self.counter += 1 panics ("attempt to add with overflow") when the build checks overflow
Panics(c, state) ==
    /\ c.op = "increment_counter"
    /\ build.overflow_checks
    /\ i32_inc_overflows(state.counter)

Fields == {"counter", "message", "gum", "ice_shape", "decimal"}

\* the field a call assigns
Assigns(op) ==
    CASE op \in {"wasm_init", "increment_counter"} -> {"counter"}
      [] op = "set_message" -> {"message"}
      [] op = "set_fave_gum" -> {"gum"}
      [] op = "set_fave_ice_shape" -> {"ice_shape"}
      [] op = "set_decimal" -> {"decimal"}
      [] OTHER -> {}

\* the field a call returns
Reads(op) ==
    CASE op = "get_counter" -> {"counter"}
      [] op = "get_message" -> {"message"}
      [] op = "get_fave_gum" -> {"gum"}
      [] op = "get_fave_ice_shape" -> {"ice_shape"}
      [] op = "get_decimal" -> {"decimal"}
      [] OTHER -> {}

\* What the history records of a call that ended: a getter's return value, else the
\* argument; and, for a getter that ran right after the same getter or after a
\* writer of its field, that call (what it follows).
Ended(c, ok, state, before) ==
    [op |-> c.op,
     ok |-> ok,
     int |-> IF ok /\ c.op = "get_counter" THEN HelloState_get_counter(state) ELSE c.int,
     text |-> CASE ok /\ c.op = "get_message" -> HelloState_get_message(state)
                [] ok /\ c.op = "get_fave_gum" -> HelloState_get_fave_gum(state)
                [] ok /\ c.op = "get_fave_ice_shape" -> HelloState_get_fave_ice_shape(state)
                [] OTHER -> c.text,
     float |-> IF ok /\ c.op = "get_decimal" THEN HelloState_get_decimal(state) ELSE c.float,
     follows |-> IF /\ ok
                    /\ before.ok
                    /\ c.op \in Getters
                    /\ (before.op = c.op \/ Reads(c.op) \subseteq Assigns(before.op))
                 THEN Call(before.op, before.int, before.text, before.float)
                 ELSE NoCall]

\* the fields in which two HelloStates differ
Changed(a, b) == {f \in Fields : a[f] # b[f]}

\* history kept when call c ran to its end and left `after`
Remember(c, after) ==
    /\ wrote' = wrote \cup Assigns(c.op)
    /\ shadow' = [f \in Fields |-> IF f \in Assigns(c.op) THEN after[f] ELSE shadow[f]]
    /\ base' = IF c.op = "wasm_init" THEN c.int ELSE base
    /\ incs' = CASE c.op = "wasm_init" -> 0
                 [] c.op = "increment_counter" -> incs + 1
                 [] OTHER -> incs

\* One exported function, called on the single-threaded host: the whole call is
\* one step.   let state = HELLO_STATE.lock().unwrap(); <body>; drop(state)
Handler(c) ==
    LET state == Deref IN
    /\ panic_hook
    /\ created' = TRUE
    /\ UNCHANGED <<panic_hook, build, pc, cur, serial>>
    /\ IF LockUnwrapPanics
       THEN /\ hello_state' = state
            /\ last' = Ended(c, FALSE, state, last)
            /\ UNCHANGED <<locked, poisoned, wrote, shadow, base, incs>>
       ELSE IF Panics(c, state)
       THEN /\ hello_state' = state
            /\ locked' = ~build.panic_unwind
            /\ poisoned' = build.panic_unwind
            /\ last' = Ended(c, FALSE, state, last)
            /\ UNCHANGED <<wrote, shadow, base, incs>>
       ELSE /\ hello_state' = Run(c, state)
            /\ last' = Ended(c, TRUE, state, last)
            /\ Remember(c, Run(c, state))
            /\ UNCHANGED <<locked, poisoned>>

\* #[wasm_bindgen(start)]: console_error_panic_hook::set_once()
init ==
    /\ ~panic_hook
    /\ panic_hook' = TRUE
    /\ last' = Ended(Call("init", 0, "", Fin(0)), TRUE, hello_state, last)
    /\ UNCHANGED <<hello_state, created, locked, poisoned, build, wrote, shadow,
                   base, incs, pc, cur, serial>>

wasm_init(initial_counter) == Handler(Call("wasm_init", initial_counter, "", Fin(0)))

get_counter == Handler(Call("get_counter", 0, "", Fin(0)))

increment_counter ==
    /\ incs < MaxIncs
    /\ Handler(Call("increment_counter", 0, "", Fin(0)))

get_message == Handler(Call("get_message", 0, "", Fin(0)))

set_message(message) == Handler(Call("set_message", 0, message, Fin(0)))

get_fave_gum == Handler(Call("get_fave_gum", 0, "", Fin(0)))

set_fave_gum(gum) == Handler(Call("set_fave_gum", 0, gum, Fin(0)))

get_fave_ice_shape == Handler(Call("get_fave_ice_shape", 0, "", Fin(0)))

set_fave_ice_shape(shape) == Handler(Call("set_fave_ice_shape", 0, shape, Fin(0)))

get_decimal == Handler(Call("get_decimal", 0, "", Fin(0)))

set_decimal(value) == Handler(Call("set_decimal", 0, "", value))

----------------------------------------------------------------------------
(* The single-threaded host: the module is instantiated, the start function *)
(* runs, and then the host calls the exported functions one at a time.      *)

Threads == 1..NThreads

Init ==
    /\ panic_hook = FALSE
    /\ hello_state = Unallocated
    /\ created = FALSE
    /\ locked = FALSE
    /\ poisoned = FALSE
    /\ build \in Builds
    /\ last = [op |-> "none", ok |-> TRUE, int |-> 0, text |-> "", float |-> Fin(0),
               follows |-> NoCall]
    /\ wrote = {}
    /\ shadow = HelloState_new
    /\ base = 0
    /\ incs = 0
    /\ pc = [t \in Threads |-> "idle"]
    /\ cur = [t \in Threads |-> NoCall]
    /\ serial = HelloState_new

Next ==
    \/ init
    \/ \E initial_counter \in IntInputs : wasm_init(initial_counter)
    \/ get_counter
    \/ increment_counter
    \/ get_message
    \/ \E message \in TextInputs : set_message(message)
    \/ get_fave_gum
    \/ \E gum \in TextInputs : set_fave_gum(gum)
    \/ get_fave_ice_shape
    \/ \E shape \in TextInputs : set_fave_ice_shape(shape)
    \/ get_decimal
    \/ \E value \in FloatInputs : set_decimal(value)

Spec == Init /\ [][Next]_vars

----------------------------------------------------------------------------
(* A multi-threaded host: each thread calls the exported functions; a call   *)
(* is lock() (which waits while another guard holds the lock), the body, and *)
(* the drop of the guard.  self.counter += 1 is a load and a store.          *)

Calls ==
    {Call(op, 0, "", Fin(0)) : op \in Getters \cup {"increment_counter"}}
        \cup {Call("wasm_init", n, "", Fin(0)) : n \in IntInputs}
        \cup {Call(op, 0, t, Fin(0)) :
                op \in {"set_message", "set_fave_gum", "set_fave_ice_shape"}, t \in TextInputs}
        \cup {Call("set_decimal", 0, "", v) : v \in FloatInputs}

\* thread t calls c: HELLO_STATE.lock().unwrap()
Lock(t, c) ==
    /\ panic_hook
    /\ pc[t] = "idle"
    /\ c.op = "increment_counter" => incs < MaxIncs
    /\ ~locked
    /\ created' = TRUE
    /\ hello_state' = Deref
    /\ IF poisoned
       THEN \* lock() returns Err(PoisonError), unwrap() panics, the guard is dropped
            UNCHANGED <<locked, pc, cur, serial>>
       ELSE /\ locked' = TRUE
            /\ pc' = [pc EXCEPT ![t] = "held"]
            /\ cur' = [cur EXCEPT ![t] = c]
            /\ serial' = IF Panics(c, serial) THEN serial ELSE Run(c, serial)
    /\ UNCHANGED <<panic_hook, poisoned, build, last, wrote, shadow, base, incs>>

\* the call of thread t returns (or its thread dies): the guard goes out of scope
Return(t) ==
    /\ pc' = [pc EXCEPT ![t] = "idle"]
    /\ cur' = [cur EXCEPT ![t] = NoCall]

\* thread t runs the body of a call other than increment_counter and drops the guard
Body(t) ==
    /\ pc[t] = "held"
    /\ cur[t].op # "increment_counter"
    /\ hello_state' = Run(cur[t], hello_state)
    /\ locked' = FALSE
    /\ Return(t)
    /\ base' = IF cur[t].op = "wasm_init" THEN cur[t].int ELSE base
    /\ incs' = IF cur[t].op = "wasm_init" THEN 0 ELSE incs
    /\ UNCHANGED <<panic_hook, created, poisoned, build, last, wrote, shadow, serial>>

\* thread t, in increment_counter, loads self.counter (kept in cur[t].int)
Load(t) ==
    /\ pc[t] = "held"
    /\ cur[t].op = "increment_counter"
    /\ pc' = [pc EXCEPT ![t] = "loaded"]
    /\ cur' = [cur EXCEPT ![t].int = hello_state.counter]
    /\ UNCHANGED <<panic_hook, hello_state, created, locked, poisoned, build, last, wrote,
                   shadow, base, incs, serial>>

\* thread t, in increment_counter, adds 1 and stores self.counter, or panics on
\* overflow; the guard is dropped on return and while unwinding, not on abort
Store(t) ==
    /\ pc[t] = "loaded"
    /\ Return(t)
    /\ IF build.overflow_checks /\ i32_inc_overflows(cur[t].int)
       THEN /\ locked' = ~build.panic_unwind
            /\ poisoned' = build.panic_unwind
            /\ UNCHANGED <<hello_state, incs>>
       ELSE /\ hello_state' =
                   HelloState_increment_counter([hello_state EXCEPT !.counter = cur[t].int])
            /\ locked' = FALSE
            /\ incs' = incs + 1
            /\ UNCHANGED poisoned
    /\ UNCHANGED <<panic_hook, created, build, last, wrote, shadow, base, serial>>

NextMT ==
    \/ init
    \/ \E t \in Threads, c \in Calls : Lock(t, c)
    \/ \E t \in Threads : Body(t)
    \/ \E t \in Threads : Load(t)
    \/ \E t \in Threads : Store(t)

SpecMT == Init /\ [][NextMT]_vars

----------------------------------------------------------------------------
(* The properties.  What the specification of the repository states is     *)
(* written here independently of the operators above.                       *)

\* the initial values of the data model
Defaults ==
    [counter |-> 0,
     message |-> "Rust WASM is so Sigma!",
     gum |-> "Hubba Bubba",
     ice_shape |-> "Cube",
     decimal |-> Fin(0)]

\* d is a number of the closed range [-10.0, 10.0]
InRange(d) == d.k = "fin" /\ NEG_TEN <= d.v /\ d.v <= TEN

\* the last call was getter `get`, it returned, and it ran right after call `op`
Got(get, op) == last.op = get /\ last.ok /\ last.follows.op = op

\* no call is in progress on any thread
Quiescent == \A t \in Threads : pc[t] = "idle"

\* C1: in every reachable state the stored decimal lies in [-10.0, 10.0], and
\* get_decimal never returns a value outside that range.
C1_DecimalInRange ==
    /\ InRange(Deref.decimal)
    /\ last.op = "get_decimal" /\ last.ok => InRange(last.float)

\* C1: set_decimal(+infinity) was called and get_decimal then returned 10.0
C1_Witness ==
    /\ Got("get_decimal", "set_decimal")
    /\ last.follows.float = PosInf
    /\ last.float = Fin(TEN)

\* max(-10.0, min(10.0, v)) as the claim writes it, read with f64's max and min
\* (which ignore a NaN operand) and read with a max and min that propagate NaN
ClaimedClamp(v) ==
    {f64_max(Fin(NEG_TEN), f64_min(Fin(TEN), v)),
     IF v.k = "nan" THEN NaN ELSE f64_max(Fin(NEG_TEN), f64_min(Fin(TEN), v))}

\* C2 as stated: for every value v, set_decimal(v) followed immediately by
\* get_decimal() returns max(-10.0, min(10.0, v)).
C2_Original ==
    Got("get_decimal", "set_decimal") => last.float \in ClaimedClamp(last.follows.float)

\* the value set_decimal(v) stores, case by case
Clamped(v) ==
    CASE v.k = "nan" -> Fin(NEG_TEN)
      [] v.k = "ninf" -> Fin(NEG_TEN)
      [] v.k = "pinf" -> Fin(TEN)
      [] v.k = "fin" /\ v.v < NEG_TEN -> Fin(NEG_TEN)
      [] v.k = "fin" /\ v.v > TEN -> Fin(TEN)
      [] OTHER -> v

\* C2 as amended: set_decimal(v) followed immediately by get_decimal() returns
\* min(10.0, max(-10.0, v)) with f64's max and min: v itself when v is in
\* [-10.0, 10.0] (the bounds included), -10.0 when v is below -10.0, 10.0 when v
\* is above 10.0, and -10.0 when v is NaN.
C2_ClampedRoundTrip ==
    Got("get_decimal", "set_decimal") => last.float = Clamped(last.follows.float)

\* C2: set_decimal(NaN) was called and get_decimal then returned -10.0
C2_Witness ==
    /\ Got("get_decimal", "set_decimal")
    /\ last.follows.float = NaN
    /\ last.float = Fin(NEG_TEN)

\* c + k is an i32 (k >= 0)
SumFits(c, k) == c <= I32_MAX - k

\* C3 as stated: k increment_counter() calls from counter == c leave
\* get_counter() == c + k, for every c the counter can hold and every k >= 0.
C3_Original ==
    last.op = "get_counter" /\ last.ok => SumFits(base, incs) /\ last.int = base + incs

\* C3 as amended: k increment_counter() calls that returned, from counter == c,
\* leave the counter and get_counter() at c + k as long as c + k <= 2147483647
\* (wasm_init(5) and three increments give 8).  An increment at 2147483647 does
\* not give 2147483648: without overflow checks it wraps to -2147483648, so that
\* the counter is c + k - 2^32; with overflow checks it never returns and the
\* counter stays 2147483647.
C3_IncrementAdds ==
    /\ IF SumFits(base, incs)
       THEN Deref.counter = base + incs
       ELSE /\ ~build.overflow_checks
            /\ Deref.counter = I32_MIN + (incs - (I32_MAX - base) - 1)
    /\ last.op = "get_counter" /\ last.ok => last.int = Deref.counter

\* C3: wasm_init(5), three increment_counter() calls, and get_counter() returned 8
C3_Witness ==
    /\ Got("get_counter", "increment_counter")
    /\ base = 5
    /\ incs = 3
    /\ last.int = 8

\* C4: wasm_init(n) that returns sets the counter to n, whatever it held, and
\* leaves message, gum, ice_shape and decimal unchanged; get_counter() right
\* after it returns n.
C4_WasmInitSetsCounter ==
    /\ [](Got("get_counter", "wasm_init") => last.int = last.follows.int)
    /\ [][last'.op = "wasm_init" /\ last'.ok
            => Deref'.counter = last'.int /\ Changed(Deref, Deref') \subseteq {"counter"}]_vars

\* C4: with the other four fields written, wasm_init(-2147483648) ran and
\* get_counter() returned -2147483648
C4_Witness ==
    /\ Got("get_counter", "wasm_init")
    /\ last.int = I32_MIN
    /\ {"message", "gum", "ice_shape", "decimal"} \subseteq wrote
    /\ hello_state.message = " a\n"
    /\ hello_state.decimal = Fin(-31416)

\* C5: set_message(s) followed immediately by get_message() returns s; the same
\* for set_fave_gum/get_fave_gum and set_fave_ice_shape/get_fave_ice_shape.
C5_TextRoundTrip ==
    /\ Got("get_message", "set_message") => last.text = last.follows.text
    /\ Got("get_fave_gum", "set_fave_gum") => last.text = last.follows.text
    /\ Got("get_fave_ice_shape", "set_fave_ice_shape") => last.text = last.follows.text

\* C5: set_fave_ice_shape(" a\n") was called and get_fave_ice_shape() returned " a\n"
C5_Witness ==
    /\ Got("get_fave_ice_shape", "set_fave_ice_shape")
    /\ last.follows.text = " a\n"
    /\ last.text = " a\n"

\* C6: as long as no call has written a field, every getter returns the default
\* of its field, whichever getters ran before it.
C6_FreshDefaults ==
    wrote = {} =>
        /\ last.ok
        /\ Deref = Defaults
        /\ last.op = "get_counter" => last.int = 0
        /\ last.op = "get_message" => last.text = "Rust WASM is so Sigma!"
        /\ last.op = "get_fave_gum" => last.text = "Hubba Bubba"
        /\ last.op = "get_fave_ice_shape" => last.text = "Cube"
        /\ last.op = "get_decimal" => last.float = Fin(0)

\* C6: nothing written yet, get_message() ran right after another get_message()
C6_Witness ==
    /\ wrote = {}
    /\ Got("get_message", "get_message")
    /\ last.text = "Rust WASM is so Sigma!"

\* C7 as stated: no call aborts, and the lock is never left poisoned or held.
C7_NoOperationFails == last.ok /\ ~poisoned /\ ~locked

\* C8 as stated: no two calls hold the lock together; the lock is free whenever
\* no call is in progress; and the state concurrent callers leave is the state
\* the same calls leave when run one at a time (n concurrent increment_counter()
\* calls leave what n increment_counter() calls in a row leave).
C8_Serialized ==
    /\ Cardinality({t \in Threads : pc[t] # "idle"}) <= 1
    /\ Quiescent => ~locked
    /\ Quiescent => Deref = serial

\* The parts of C8 that hold on every build: no two calls hold the lock together,
\* the threads leave the state the same calls leave when run one at a time in the
\* order of their lock() calls, and a guard that is dropped frees the lock.
MT_Serializable ==
    /\ Cardinality({t \in Threads : pc[t] # "idle"}) <= 1
    /\ (\E t \in Threads : pc[t] # "idle") => locked
    /\ Quiescent => Deref = serial
    /\ Quiescent /\ locked => build.overflow_checks /\ ~build.panic_unwind

\* C9: the state is created by the first accessor call (not at load, not by the
\* start function), and never again: every field holds the value last written
\* to it, or its default when it was never written.
C9_CreatedOnce ==
    /\ created <=> last.op \notin {"none", "init"}
    /\ created =>
          \A f \in Fields : hello_state[f] = IF f \in wrote THEN shadow[f] ELSE Defaults[f]

\* C9: message was written, and a later get_fave_gum() still found gum at its
\* default and message as written
C9_Witness ==
    /\ created
    /\ wrote = {"message"}
    /\ last.op = "get_fave_gum"
    /\ last.ok
    /\ last.text = "Hubba Bubba"
    /\ hello_state.message = " a\n"

\* C10: a call changes no field but the one it assigns (a getter, the start
\* function and a call that aborts change none), a getter returns the field as
\* it is, and a getter called twice in a row returns the same value.
C10_OwnFieldOnly ==
    /\ [](last.op \in Getters /\ last.ok =>
            /\ \A f \in Reads(last.op) :
                  Deref[f] = CASE f = "counter" -> last.int
                               [] f = "decimal" -> last.float
                               [] OTHER -> last.text
            /\ last.follows.op = last.op =>
                  /\ last.follows.int = last.int
                  /\ last.follows.text = last.text
                  /\ last.follows.float = last.float)
    /\ [][Changed(Deref, Deref') \subseteq (IF last'.ok THEN Assigns(last'.op) ELSE {})]_vars

\* C10: with message and gum written to different values, get_fave_gum() ran
\* twice in a row
C10_Witness ==
    /\ Got("get_fave_gum", "get_fave_gum")
    /\ last.text = " a\n"
    /\ {"message", "gum"} \subseteq wrote

====
